---- MODULE Spec2Model ----
(***************************************************************************)
(* The update scheduler of the GT7 dashboard (src/main.py): the two        *)
(* periodic callbacks update_lap_change and update_fuel_map, the widget    *)
(* handlers, and the ingestion thread (app.gt7comm) that changes the lap   *)
(* list, the session and the connectivity flag while the callbacks run.    *)
(*                                                                         *)
(* A Lap is a heap object: an identity (1..MaxObjs) with a content.  The   *)
(* lists of the program hold identities, so that laps.copy() is the        *)
(* shallow copy it is in Python.  What the program renders (tables, panel  *)
(* texts, graph data) is a value computed from the contents at that time.  *)
(*                                                                         *)
(* The script of a session shares app.gt7comm between the sessions of the  *)
(* process; its steps are the specification SpecStartup.                   *)
(***************************************************************************)
EXTENDS Integers, Sequences, FiniteSets, TLC

\* ---------------------------------------------------------------- bounds
MaxObjs == 3
MaxLen == 2
MaxTime == 2
MaxSpeed == 1
MaxSessions == 3

\* ------------------------------------------------------------ the values
None == 0
LapIds == 1..MaxObjs
Contents == [time : 1..MaxTime, samples : BOOLEAN]
DeadLap == [time |-> 1, samples |-> FALSE]
NoSession == -1
EmptyText == <<>>
EmptyGrid == <<>>
BestLapOption == <<-1, 0>>
NoValue == -2

VARIABLES
  heap,                        \* the Lap objects: identity -> content
  laps,                        \* app.gt7comm.laps, newest first
  connected,                   \* what app.gt7comm.is_connected() returns
  session,                     \* app.gt7comm.session (its max_speed)
  brake_points_enabled,        \* GT7_ADD_BRAKEPOINTS == "true"
  g_laps_stored,
  g_session_stored,
  g_connection_status_stored,
  g_reference_lap_selected,
  g_stored_fuel_map,
  g_telemetry_update_needed,
  div_connection_info,
  div_tuning_info,
  div_last_lap,
  div_reference_lap,
  div_fuel_map,
  t_lap_times,
  select_options,              \* reference_lap_select.options
  select_value,                \* reference_lap_select.value
  data_sources,
  race_line_markers,           \* the scatter glyphs added to s_race_line
  pc,                          \* where update_lap_change is
  caller,                      \* who called update_lap_change
  fpc,                         \* where update_fuel_map is
  win_runs,                    \* pipeline runs since the last change was picked up
  changed,                     \* lap list or selection changed since the last tick began
  stored_value,                \* contents of g_laps_stored when it was stored
  ref_processed,               \* g_reference_lap_selected when g_laps_stored was stored
  playstation_ip,              \* GT7_PLAYSTATION_IP is set to a non-empty value
  load_laps_path,              \* GT7_LOAD_LAPS_PATH is set to a non-empty value
  gt7comm,                     \* app.gt7comm: "absent", "created" or "started"
  spc,                         \* where the script of the session being opened is
  sessions,                    \* sessions opened in this process
  n_created,                   \* calls of GT7Communication(playstation_ip)
  n_started,                   \* calls of app.gt7comm.start()
  n_restarted                  \* calls of app.gt7comm.restart()

boot == <<playstation_ip, load_laps_path, gt7comm, spc, sessions, n_created, n_started,
          n_restarted>>
env == <<heap, laps, connected, session, brake_points_enabled, boot>>
globals == <<g_laps_stored, g_session_stored, g_connection_status_stored,
             g_reference_lap_selected, g_stored_fuel_map, g_telemetry_update_needed>>
lap_views == <<div_last_lap, div_reference_lap, t_lap_times, select_options,
               data_sources, race_line_markers>>
views == <<div_connection_info, div_tuning_info, div_fuel_map, select_value, lap_views>>
ctl == <<pc, caller, fpc>>
ghost == <<win_runs, changed, stored_value, ref_processed>>
vars == <<env, globals, views, ctl, ghost>>

\* --------------------------------------------------------------- helpers
Range(s) == {s[i] : i \in 1..Len(s)}

Ids(x) == IF x = None THEN {} ELSE {x}

\* the Lap objects some variable of the program still refers to
Referenced(ls, st, sel, fm) == Range(ls) \cup Range(st) \cup Ids(sel) \cup Ids(fm)

\* an unreferenced object is gone: its content is forgotten
Collect(h, refs) == [i \in LapIds |-> IF i \in refs THEN h[i] ELSE DeadLap]

\* k objects that nothing refers to, lowest identities first
RECURSIVE FreshIds(_, _)
FreshIds(refs, k) ==
  IF k = 0 THEN <<>>
  ELSE LET i == CHOOSE j \in LapIds \ refs : \A m \in LapIds \ refs : j <= m
       IN <<i>> \o FreshIds(refs \cup {i}, k - 1)

\* Lap.__eq__: two laps are equal when they are the same object or hold the same data
LapEq(h, a, b) == a # None /\ b # None /\ (a = b \/ h[a] = h[b])

\* list.__eq__ on two lists of Lap
ListEq(h, a, b) == Len(a) = Len(b) /\ \A i \in 1..Len(a) : LapEq(h, a[i], b[i])

\* lap in laps
InList(h, l, ls) == \E i \in 1..Len(ls) : LapEq(h, ls[i], l)

\* the contents of a list of laps, the list compared by value
Values(h, ls) == [i \in 1..Len(ls) |-> h[ls[i]]]

\* gt7helper.get_best_lap: the lowest lap time, the earliest one on a tie
BestLap(h, ls) ==
  LET i == CHOOSE j \in 1..Len(ls) :
             /\ \A m \in 1..Len(ls) : h[ls[j]].time <= h[ls[m]].time
             /\ \A m \in 1..(j - 1) : h[ls[m]].time > h[ls[j]].time
  IN ls[i]

\* the median lap's time: the lower median of the lap times
MedianTime(h, ls) ==
  CHOOSE t \in 1..MaxTime :
    /\ \E i \in 1..Len(ls) : h[ls[i]].time = t
    /\ 2 * Cardinality({i \in 1..Len(ls) : h[ls[i]].time <= t}) >= Len(ls)
    /\ \A u \in 1..(t - 1) :
         2 * Cardinality({i \in 1..Len(ls) : h[ls[i]].time <= u}) < Len(ls)

\* gt7helper.get_last_reference_median_lap: the last lap and the reference lap
\* (laps or None), and the data of the median lap
LastLap(ls) == IF Len(ls) > 0 THEN ls[1] ELSE None

ReferenceLap(h, ls, sel) ==
  IF sel # None /\ InList(h, sel, ls) THEN sel
  ELSE IF Len(ls) >= 2 THEN BestLap(h, ls)
  ELSE None

MedianLapData(h, ls) ==
  IF Len(ls) > 1 /\ \E i \in 1..Len(ls) : h[ls[i]].samples
  THEN <<"median", MedianTime(h, ls)>>
  ELSE EmptyGrid

\* gt7helper.get_data_from_lap(lap, distance_mode=True): no lap or no samples
\* gives the empty grid
GetDataFromLap(h, l) ==
  IF l = None THEN EmptyGrid
  ELSE IF h[l].samples THEN <<"lap", h[l].time>> ELSE EmptyGrid

\* gt7helper.calculate_time_diff_by_distance(reference_lap, last_lap)
CalculateTimeDiffByDistance(h, ref, last) ==
  IF last = None THEN EmptyGrid
  ELSE IF h[ref].samples /\ h[last].samples
       THEN <<"diff", h[last].time - h[ref].time>>
       ELSE EmptyGrid

\* gt7helper.get_brake_points(lap), as the glyphs scatter() draws in a colour
BrakePoints(h, l, color) == IF h[l].samples THEN {<<color, h[l].time>>} ELSE {}

\* gt7helper.pd_data_frame_from_lap: one row per lap
TimeTable(h, ls) == [i \in 1..Len(ls) |-> h[ls[i]].time]

\* gt7helper.bokeh_tuple_for_list_of_laps: (index, label) per lap
BokehTupleForListOfLaps(h, ls) == [i \in 1..Len(ls) |-> <<i - 1, h[ls[i]].time>>]

\* the text update_speed_peak_and_valley_diagram writes
PeakValleyTable(h, l, title) == <<title, h[l]>>

\* the table update_fuel_map writes
FuelTable(h, l) == <<"fuel", h[l]>>

StatusOf(b) == IF b THEN "True" ELSE "False"

ConnectionText(b) == IF b THEN "Connected" ELSE "Disconnected"

\* ------------------------------------------------------------------ Init
\* the module-level assignments of src/main.py, before the first callback runs
InitSession ==
  /\ heap = [i \in LapIds |-> DeadLap]
  /\ laps = <<>>
  /\ connected = FALSE
  /\ session = 0
  /\ brake_points_enabled \in BOOLEAN
  /\ g_laps_stored = <<>>
  /\ g_session_stored = NoSession
  /\ g_connection_status_stored = "None"
  /\ g_reference_lap_selected = None
  /\ g_stored_fuel_map = None
  /\ g_telemetry_update_needed = FALSE
  /\ div_connection_info = ""
  /\ div_tuning_info = EmptyText
  /\ div_last_lap = EmptyText
  /\ div_reference_lap = EmptyText
  /\ div_fuel_map = EmptyText
  /\ t_lap_times = <<>>
  /\ select_options = <<>>
  /\ select_value = NoValue
  /\ data_sources = [i \in 0..3 |-> EmptyGrid]
  /\ race_line_markers = {}
  /\ pc = "idle"
  /\ caller = "none"
  /\ fpc = "idle"
  /\ win_runs = 0
  /\ changed = FALSE
  /\ stored_value = <<>>
  /\ ref_processed = None

\* a session of a process whose first session created and started app.gt7comm
Init ==
  /\ InitSession
  /\ playstation_ip = TRUE
  /\ load_laps_path = FALSE
  /\ gt7comm = "started"
  /\ spc = "none"
  /\ sessions = 1
  /\ n_created = 1
  /\ n_started = 1
  /\ n_restarted = 0

\* the process before its first session: the environment is what it is
InitStartup ==
  /\ InitSession
  /\ playstation_ip \in BOOLEAN
  /\ load_laps_path \in BOOLEAN
  /\ gt7comm = "absent"
  /\ spc = "none"
  /\ sessions = 0
  /\ n_created = 0
  /\ n_started = 0
  /\ n_restarted = 0

\* what the heap is once the references are as given
HeapAfter(h, ls, st, sel, fm) == Collect(h, Referenced(ls, st, sel, fm))

\* the Bokeh event loop runs one callback at a time, to its end
LoopIdle == pc = "idle" /\ fpc = "idle"

\* ------------------------------------------------- the ingestion thread
\* GT7Communication.finish_lap: a completed lap is put at the head of the list,
\* the list changed in place
InsertLap(c) ==
  LET refs == Referenced(laps, g_laps_stored, g_reference_lap_selected, g_stored_fuel_map)
  IN /\ Len(laps) < MaxLen
     /\ LapIds \ refs # {}
     /\ LET id == FreshIds(refs, 1)[1]
        IN /\ laps' = <<id>> \o laps
           /\ heap' = [heap EXCEPT ![id] = c]
     /\ changed' = TRUE

\* a lap the ingestion thread completes from telemetry holds samples
FinishLap ==
  /\ \E t \in 1..MaxTime : InsertLap([time |-> t, samples |-> TRUE])
  /\ UNCHANGED <<connected, session, brake_points_enabled, boot, globals, views, ctl,
                 win_runs, stored_value, ref_processed>>

\* the newest Lap of the list is changed where it is, the list keeps its length
MutateLap ==
  /\ Len(laps) > 0
  /\ \E t \in 1..MaxTime :
       /\ t # heap[laps[1]].time
       /\ heap' = [heap EXCEPT ![laps[1]].time = t]
  /\ changed' = TRUE
  /\ UNCHANGED <<laps, connected, session, brake_points_enabled, boot, globals, views, ctl,
                 win_runs, stored_value, ref_processed>>

\* the connection to the console is lost or made
SetConnected ==
  /\ connected' = ~connected
  /\ UNCHANGED <<heap, laps, session, brake_points_enabled, boot, globals, views, ctl, ghost>>

\* the live session gets a new value
SessionUpdate ==
  /\ \E v \in 0..MaxSpeed : v # session /\ session' = v
  /\ UNCHANGED <<heap, laps, connected, brake_points_enabled, boot, globals, views, ctl, ghost>>

\* ------------------------------------------------------ widget handlers
ResetButtonHandler ==
  /\ LoopIdle
  /\ div_reference_lap' = EmptyText
  /\ div_last_lap' = EmptyText
  /\ laps' = <<>>
  /\ changed' = (changed \/ laps # <<>>)
  /\ heap' = HeapAfter(heap, <<>>, g_laps_stored, g_reference_lap_selected, g_stored_fuel_map)
  /\ UNCHANGED <<connected, session, brake_points_enabled, boot, globals, ctl,
                 div_connection_info, div_tuning_info, div_fuel_map, select_value,
                 t_lap_times, select_options, data_sources, race_line_markers,
                 win_runs, stored_value, ref_processed>>

\* finish_lap(manual=True): the lap logged by hand may hold no samples yet
LogLapButtonHandler ==
  /\ LoopIdle
  /\ \E c \in Contents : InsertLap(c)
  /\ UNCHANGED <<connected, session, brake_points_enabled, boot, globals, views, ctl,
                 win_runs, stored_value, ref_processed>>

\* the lap files that can be loaded: one of each length, its laps one after the
\* other slower
LapFiles ==
  {[i \in 1..n |-> [time |-> ((n - i) % MaxTime) + 1, samples |-> TRUE]] : n \in 1..MaxLen}

LoadLapsHandler ==
  /\ LoopIdle
  /\ \E f \in LapFiles :
       LET refs == Referenced(<<>>, g_laps_stored, g_reference_lap_selected, g_stored_fuel_map)
       IN /\ Cardinality(LapIds \ refs) >= Len(f)
          /\ LET ids == FreshIds(refs, Len(f))
             IN /\ laps' = ids
                /\ heap' = [i \in LapIds |->
                             IF \E k \in 1..Len(f) : ids[k] = i
                             THEN f[CHOOSE k \in 1..Len(f) : ids[k] = i]
                             ELSE IF i \in refs THEN heap[i] ELSE DeadLap]
  /\ changed' = TRUE
  /\ UNCHANGED <<connected, session, brake_points_enabled, boot, globals, views, ctl,
                 win_runs, stored_value, ref_processed>>

\* the values the user can pick in reference_lap_select
OptionValues == {select_options[i][1] : i \in 1..Len(select_options)}

LoadReferenceLapHandler ==
  /\ LoopIdle
  /\ \E new \in OptionValues \ {select_value} :
       /\ select_value' = new
       /\ caller' = "select"
       /\ IF new = -1
          THEN /\ g_reference_lap_selected' = None
               /\ g_telemetry_update_needed' = TRUE
               /\ pc' = "entry"
               /\ changed' = TRUE
          ELSE IF new + 1 > Len(g_laps_stored)
          THEN /\ pc' = "raised"
               /\ UNCHANGED <<g_reference_lap_selected, g_telemetry_update_needed, changed>>
          ELSE /\ g_reference_lap_selected' = g_laps_stored[new + 1]
               /\ g_telemetry_update_needed' = TRUE
               /\ pc' = "entry"
               /\ changed' = TRUE
  /\ heap' = HeapAfter(heap, laps, g_laps_stored, g_reference_lap_selected', g_stored_fuel_map)
  /\ UNCHANGED <<laps, connected, session, brake_points_enabled, boot, g_laps_stored,
                 g_session_stored, g_connection_status_stored, g_stored_fuel_map,
                 div_connection_info, div_tuning_info, div_fuel_map, lap_views, fpc,
                 win_runs, stored_value, ref_processed>>

\* --------------------------------------------------- update_lap_change
\* curdoc().add_periodic_callback(update_lap_change, 1000)
TimerTick ==
  /\ LoopIdle
  /\ pc' = "entry"
  /\ caller' = "timer"
  /\ UNCHANGED <<env, globals, views, fpc, ghost>>

\* laps = app.gt7comm.get_laps() is the live list; then the session is compared
Entry ==
  /\ pc = "entry"
  /\ IF session # g_session_stored
     THEN /\ div_tuning_info' = <<"tuning", session>>
          /\ g_session_stored' = session
     ELSE UNCHANGED <<div_tuning_info, g_session_stored>>
  /\ win_runs' = IF changed THEN 0 ELSE win_runs
  /\ changed' = FALSE
  /\ pc' = "conn_cmp"
  /\ UNCHANGED <<env, g_laps_stored, g_connection_status_stored, g_reference_lap_selected,
                 g_stored_fuel_map, g_telemetry_update_needed, div_connection_info,
                 div_fuel_map, select_value, lap_views, caller, fpc, stored_value,
                 ref_processed>>

\* if app.gt7comm.is_connected() != g_connection_status_stored
ConnCompare ==
  /\ pc = "conn_cmp"
  /\ pc' = IF StatusOf(connected) # g_connection_status_stored THEN "conn_upd" ELSE "check"
  /\ UNCHANGED <<env, globals, views, caller, fpc, ghost>>

\* update_connection_info() reads is_connected() again
UpdateConnectionInfo ==
  /\ pc = "conn_upd"
  /\ div_connection_info' = ConnectionText(connected)
  /\ pc' = "conn_store"
  /\ UNCHANGED <<env, globals, div_tuning_info, div_fuel_map, select_value, lap_views,
                 caller, fpc, ghost>>

\* g_connection_status_stored = copy.copy(app.gt7comm.is_connected()): a third read
ConnStore ==
  /\ pc = "conn_store"
  /\ g_connection_status_stored' = StatusOf(connected)
  /\ pc' = "check"
  /\ UNCHANGED <<env, g_laps_stored, g_session_stored, g_reference_lap_selected,
                 g_stored_fuel_map, g_telemetry_update_needed, views, caller, fpc, ghost>>

\* update_lap_change without the early return: every tick runs the pipeline
NeverSkips == FALSE

\* if laps == g_laps_stored and not g_telemetry_update_needed: return
NothingToDo == ListEq(heap, laps, g_laps_stored) /\ ~g_telemetry_update_needed

DirtyCheck ==
  /\ pc = "check"
  /\ IF NothingToDo
     THEN /\ pc' = "idle"
          /\ caller' = "none"
          /\ UNCHANGED win_runs
     ELSE /\ pc' = "panels"
          /\ win_runs' = IF win_runs < 2 THEN win_runs + 1 ELSE 2
          /\ UNCHANGED caller
  /\ UNCHANGED <<env, globals, views, fpc, changed, stored_value, ref_processed>>

\* the peak and valley panels of the last and of the reference lap
UpdatePanels ==
  /\ pc = "panels"
  /\ IF Len(laps) > 0
     THEN /\ div_last_lap' = PeakValleyTable(heap, laps[1], "Last Lap")
          /\ IF /\ Len(laps) > 1
                /\ ReferenceLap(heap, laps, g_reference_lap_selected) # None
             THEN div_reference_lap' =
                    PeakValleyTable(heap, ReferenceLap(heap, laps, g_reference_lap_selected),
                                    "Reference Lap")
             ELSE UNCHANGED div_reference_lap
     ELSE UNCHANGED <<div_last_lap, div_reference_lap>>
  /\ pc' = "table"
  /\ UNCHANGED <<env, globals, div_connection_info, div_tuning_info, div_fuel_map,
                 select_value, t_lap_times, select_options, data_sources,
                 race_line_markers, caller, fpc, ghost>>

UpdateTimeTable ==
  /\ pc = "table"
  /\ t_lap_times' = TimeTable(heap, laps)
  /\ pc' = "select"
  /\ UNCHANGED <<env, globals, div_connection_info, div_tuning_info, div_fuel_map,
                 select_value, div_last_lap, div_reference_lap, select_options,
                 data_sources, race_line_markers, caller, fpc, ghost>>

UpdateReferenceLapSelect ==
  /\ pc = "select"
  /\ select_options' = <<BestLapOption>> \o BokehTupleForListOfLaps(heap, laps)
  /\ pc' = "graph"
  /\ UNCHANGED <<env, globals, div_connection_info, div_tuning_info, div_fuel_map,
                 select_value, div_last_lap, div_reference_lap, t_lap_times,
                 data_sources, race_line_markers, caller, fpc, ghost>>

\* the reference lap picked from the stored snapshot instead of the list passed in
GraphLapsFromSnapshot == g_laps_stored

\* the list update_speed_velocity_graph picks the reference lap from
GraphLaps == laps

\* update_speed_velocity_graph(laps): the data sources, then the brake points.
\* len(lap.data_braking) of a lap that is None raises, and the callback ends there.
UpdateSpeedVelocityGraph ==
  /\ pc = "graph"
  /\ LET last == LastLap(laps)
         ref == ReferenceLap(heap, GraphLaps, g_reference_lap_selected)
         blue == IF last # None THEN BrakePoints(heap, last, "blue") ELSE {}
         magenta == IF ref # None THEN BrakePoints(heap, ref, "magenta") ELSE {}
     IN /\ data_sources' =
             [data_sources EXCEPT
                ![0] = IF ref # None /\ heap[ref].samples
                       THEN CalculateTimeDiffByDistance(heap, ref, last) ELSE @,
                ![1] = GetDataFromLap(heap, last),
                ![2] = GetDataFromLap(heap, ref),
                ![3] = MedianLapData(heap, laps)]
        /\ IF ~brake_points_enabled
           THEN pc' = "store" /\ UNCHANGED race_line_markers
           ELSE IF last = None
           THEN pc' = "raised" /\ UNCHANGED race_line_markers
           ELSE IF ref = None
           THEN pc' = "raised" /\ race_line_markers' = race_line_markers \cup blue
           ELSE pc' = "store" /\ race_line_markers' = race_line_markers \cup blue \cup magenta
  /\ UNCHANGED <<env, globals, div_connection_info, div_tuning_info, div_fuel_map,
                 select_value, div_last_lap, div_reference_lap, t_lap_times,
                 select_options, caller, fpc, ghost>>

\* g_laps_stored = laps.copy(); g_telemetry_update_needed = False
StoreSnapshot ==
  /\ pc = "store"
  /\ g_laps_stored' = laps
  /\ g_telemetry_update_needed' = FALSE
  /\ stored_value' = Values(heap, laps)
  /\ ref_processed' = g_reference_lap_selected
  /\ pc' = "idle"
  /\ caller' = "none"
  /\ heap' = HeapAfter(heap, laps, laps, g_reference_lap_selected, g_stored_fuel_map)
  /\ UNCHANGED <<laps, connected, session, brake_points_enabled, boot, g_session_stored,
                 g_connection_status_stored, g_reference_lap_selected, g_stored_fuel_map,
                 views, fpc, win_runs, changed>>

\* an exception leaves the callback; the event loop logs it and goes on
LoopCatch ==
  /\ pc = "raised"
  /\ pc' = "idle"
  /\ caller' = "none"
  /\ UNCHANGED <<env, globals, views, fpc, ghost>>

\* ----------------------------------------------------- update_fuel_map
\* curdoc().add_periodic_callback(update_fuel_map, 5000)

\* the fuel callback started without waiting for update_lap_change to return
FuelTimerUnserialized == fpc = "idle"

\* the event loop starts update_fuel_map only between callbacks
FuelTimerReady == pc = "idle" /\ fpc = "idle"

FuelTick ==
  /\ FuelTimerReady
  /\ fpc' = "entry"
  /\ UNCHANGED <<env, globals, views, pc, caller, ghost>>

\* if len(app.gt7comm.laps) == 0: div_fuel_map.text = ""; return
FuelEntry ==
  /\ fpc = "entry"
  /\ IF Len(laps) = 0
     THEN div_fuel_map' = EmptyText /\ fpc' = "idle"
     ELSE UNCHANGED div_fuel_map /\ fpc' = "body"
  /\ UNCHANGED <<env, globals, div_connection_info, div_tuning_info, select_value,
                 lap_views, pc, caller, ghost>>

\* last_lap = app.gt7comm.laps[0]; unchanged: return; else store it and render
FuelBody ==
  /\ fpc = "body"
  /\ IF LapEq(heap, laps[1], g_stored_fuel_map)
     THEN UNCHANGED <<g_stored_fuel_map, div_fuel_map, heap>>
     ELSE /\ g_stored_fuel_map' = laps[1]
          /\ div_fuel_map' = FuelTable(heap, laps[1])
          /\ heap' = HeapAfter(heap, laps, g_laps_stored, g_reference_lap_selected, laps[1])
  /\ fpc' = "idle"
  /\ UNCHANGED <<laps, connected, session, brake_points_enabled, boot, g_laps_stored,
                 g_session_stored, g_connection_status_stored, g_reference_lap_selected,
                 g_telemetry_update_needed, div_connection_info, div_tuning_info,
                 select_value, lap_views, pc, caller, ghost>>

\* ------------------------------------------- the script of a session
\* the lines of src/main.py that share app.gt7comm between the sessions of the
\* process; the server runs the script of one session at a time

\* the environment, the collaborator and the counters of its calls, but for spc
bootRest == <<playstation_ip, load_laps_path, gt7comm, sessions, n_created, n_started,
              n_restarted>>

\* a browser opens a session: the server runs the script from its top
SessionOpen ==
  /\ spc = "none"
  /\ sessions < MaxSessions
  /\ sessions' = sessions + 1
  /\ spc' = "hasattr"
  /\ UNCHANGED <<heap, laps, connected, session, brake_points_enabled, playstation_ip,
                 load_laps_path, gt7comm, n_created, n_started, n_restarted,
                 globals, views, ctl, ghost>>

\* every session finds no app.gt7comm and makes its own
Gt7commNeverShared == FALSE

\* hasattr(app, "gt7comm")
HasAttrGt7comm == gt7comm # "absent"

\* if not hasattr(app, "gt7comm"): ... else: ...
CheckHasAttr ==
  /\ spc = "hasattr"
  /\ spc' = IF HasAttrGt7comm THEN "reuse" ELSE "env"
  /\ UNCHANGED <<heap, laps, connected, session, brake_points_enabled, bootRest,
                 globals, views, ctl, ghost>>

\* if not playstation_ip: raise Exception("No IP set in env var GT7_PLAYSTATION_IP")
ReadEnvironment ==
  /\ spc = "env"
  /\ spc' = IF playstation_ip THEN "construct" ELSE "fatal"
  /\ UNCHANGED <<heap, laps, connected, session, brake_points_enabled, bootRest,
                 globals, views, ctl, ghost>>

\* app.gt7comm = gt7communication.GT7Communication(playstation_ip)
CreateGT7Communication ==
  /\ spc = "construct"
  /\ gt7comm' = "created"
  /\ n_created' = n_created + 1
  /\ spc' = IF load_laps_path THEN "load" ELSE "start"
  /\ UNCHANGED <<heap, laps, connected, session, brake_points_enabled, playstation_ip,
                 load_laps_path, sessions, n_started, n_restarted,
                 globals, views, ctl, ghost>>

\* app.gt7comm.load_laps(load_laps_from_pickle(load_laps_path), replace_other_laps=True):
\* the file is read and its laps become the lap list, or reading it raises
StartupLoadLaps ==
  /\ spc = "load"
  /\ \/ /\ spc' = "raised"
        /\ UNCHANGED <<heap, laps, changed>>
     \/ /\ spc' = "start"
        /\ \E f \in LapFiles :
             LET ids == FreshIds({}, Len(f))
             IN /\ laps' = ids
                /\ heap' = [i \in LapIds |->
                             IF \E k \in 1..Len(f) : ids[k] = i
                             THEN f[CHOOSE k \in 1..Len(f) : ids[k] = i]
                             ELSE DeadLap]
        /\ changed' = TRUE
  /\ UNCHANGED <<connected, session, brake_points_enabled, bootRest, globals, views, ctl,
                 win_runs, stored_value, ref_processed>>

\* app.gt7comm.start()
StartGT7Communication ==
  /\ spc = "start"
  /\ gt7comm' = "started"
  /\ n_started' = n_started + 1
  /\ spc' = "done"
  /\ UNCHANGED <<heap, laps, connected, session, brake_points_enabled, playstation_ip,
                 load_laps_path, sessions, n_created, n_restarted,
                 globals, views, ctl, ghost>>

\* if not app.gt7comm.is_connected(): ... else: pass
ReuseCheck ==
  /\ spc = "reuse"
  /\ spc' = IF ~connected THEN "restart" ELSE "done"
  /\ UNCHANGED <<heap, laps, connected, session, brake_points_enabled, bootRest,
                 globals, views, ctl, ghost>>

\* app.gt7comm.restart(): the thread is running afterwards
RestartGT7Communication ==
  /\ spc = "restart"
  /\ gt7comm' = "started"
  /\ n_restarted' = n_restarted + 1
  /\ spc' = "done"
  /\ UNCHANGED <<heap, laps, connected, session, brake_points_enabled, playstation_ip,
                 load_laps_path, sessions, n_created, n_started,
                 globals, views, ctl, ghost>>

\* the script has run to its end, or the server has reported what it raised
SessionScriptEnd ==
  /\ spc \in {"done", "fatal", "raised"}
  /\ spc' = "none"
  /\ UNCHANGED <<heap, laps, connected, session, brake_points_enabled, bootRest,
                 globals, views, ctl, ghost>>

\* the started thread makes and loses the connection to the console
ThreadSetConnected ==
  /\ gt7comm = "started"
  /\ SetConnected

\* ------------------------------------------------------ specifications
\* the steps of update_lap_change, and the event loop catching what it raises
TickSteps ==
  \/ Entry
  \/ ConnCompare
  \/ UpdateConnectionInfo
  \/ ConnStore
  \/ DirtyCheck
  \/ UpdatePanels
  \/ UpdateTimeTable
  \/ UpdateReferenceLapSelect
  \/ UpdateSpeedVelocityGraph
  \/ StoreSnapshot
  \/ LoopCatch

FuelSteps ==
  \/ FuelTick
  \/ FuelEntry
  \/ FuelBody

\* the lap pipeline: the ingestion thread completes laps while the user resets,
\* loads laps and picks reference laps
Next ==
  \/ FinishLap
  \/ ResetButtonHandler
  \/ LoadLapsHandler
  \/ LoadReferenceLapHandler
  \/ TimerTick
  \/ TickSteps

Spec == Init /\ [][Next]_vars

\* the ingestion thread alone: laps completed and changed in place
NextIngest ==
  \/ FinishLap
  \/ MutateLap
  \/ TimerTick
  \/ TickSteps

SpecIngest == Init /\ [][NextIngest]_vars

\* laps logged by hand, some without samples, and resets
NextManual ==
  \/ LogLapButtonHandler
  \/ ResetButtonHandler
  \/ TimerTick
  \/ TickSteps

SpecManual == Init /\ [][NextManual]_vars

\* both periodic callbacks and the reference lap handler on the event loop
NextSched ==
  \/ FinishLap
  \/ LoadReferenceLapHandler
  \/ TimerTick
  \/ TickSteps
  \/ FuelSteps

SpecSched == Init /\ [][NextSched]_vars

\* the connection and the session change while update_lap_change runs
NextConn ==
  \/ SetConnected
  \/ SessionUpdate
  \/ FinishLap
  \/ TimerTick
  \/ TickSteps

SpecConn == Init /\ [][NextConn]_vars

\* the fuel map: laps completed, reset and loaded between and during its ticks
NextFuel ==
  \/ FinishLap
  \/ ResetButtonHandler
  \/ LoadLapsHandler
  \/ FuelSteps

SpecFuel == Init /\ [][NextFuel]_vars

\* the sessions of one process: each runs the script that shares app.gt7comm
SessionSteps ==
  \/ SessionOpen
  \/ CheckHasAttr
  \/ ReadEnvironment
  \/ CreateGT7Communication
  \/ StartupLoadLaps
  \/ StartGT7Communication
  \/ ReuseCheck
  \/ RestartGT7Communication
  \/ SessionScriptEnd

NextStartup ==
  \/ SessionSteps
  \/ ThreadSetConnected

SpecStartup == InitStartup /\ [][NextStartup]_vars

\* --------------------------------------------------------------- claims
PipelinePcs == {"panels", "table", "select", "graph", "store"}

\* the lap entries of the dropdown, after its "Best Lap" entry
LapOptions == IF select_options = <<>> THEN <<>> ELSE Tail(select_options)

\* the time table, the dropdown and the last lap's graph source show the list ls
Reflects(h, ls) ==
  /\ t_lap_times = TimeTable(h, ls)
  /\ LapOptions = BokehTupleForListOfLaps(h, ls)
  /\ data_sources[1] = GetDataFromLap(h, LastLap(ls))

\* C1: over consecutive ticks during which neither the lap list nor the
\* reference selection changes, the pipeline is entered at most once.
C1_CoalescedRuns == (~changed) => win_runs <= 1

\* C2: a tick returns without running the pipeline only if the lap list still has
\* the value it had when the snapshot was stored (the laps compared by content, so
\* a Lap changed in place counts) and the reference selection is the one processed.
C2_ChangeGoesDirty ==
  [][(pc = "check" /\ pc' = "idle")
       => (Values(heap, laps) = stored_value /\ g_reference_lap_selected = ref_processed)]_vars

\* C3: a pipeline run ends Idle, never in a fault, with g_laps_stored the list its
\* outputs were computed from and g_telemetry_update_needed cleared.
C3_RunEndsIdle ==
  [][(pc \in PipelinePcs /\ pc' \notin PipelinePcs)
       => /\ pc' = "idle"
          /\ ~g_telemetry_update_needed'
          /\ t_lap_times' = TimeTable(heap', g_laps_stored')
          /\ LapOptions' = BokehTupleForListOfLaps(heap', g_laps_stored')
          /\ data_sources'[1] = GetDataFromLap(heap', LastLap(g_laps_stored'))]_vars

\* C4: a timer tick on a list of zero laps or one lap never ends in a fault,
\* whatever the brake point option is.
C4_NoFaultOnShortList == ~(pc = "raised" /\ caller = "timer" /\ Len(laps) <= 1)

\* C5: a tick finds nothing to do only when the time table, the dropdown and the
\* last lap's graph source show the current lap list: no change of the list is
\* left undisplayed for good.
C5_NoLostChange == [][(pc = "check" /\ pc' = "idle") => Reflects(heap, laps)]_vars

C7_NoStaleTimeDiff ==
  [][(pc = "graph" /\ pc' # "graph"
        /\ LET ref == ReferenceLap(heap, laps, g_reference_lap_selected)
           IN ref = None \/ ~heap[ref].samples)
       => data_sources'[0] = EmptyGrid]_vars

\* C8: a run of update_lap_change (from the timer or from the reference lap
\* handler) and a run of update_fuel_map begin only when no run is in progress,
\* and a run in progress is not taken over by another caller.
C8_RunsNeverOverlap ==
  [][/\ ((pc' = "entry" /\ pc # "entry") \/ (fpc' = "entry" /\ fpc # "entry"))
          => (pc = "idle" /\ fpc = "idle")
     /\ (pc # "idle" /\ pc' # "idle") => caller' = caller
     /\ ~(pc' # "idle" /\ fpc' # "idle")]_vars

\* C8 witness: a run started by the reference lap handler is in progress after a
\* fuel map run and a timer run have finished.
C8_HandlerRunAfterOthers ==
  /\ pc = "store"
  /\ caller = "select"
  /\ fpc = "idle"
  /\ div_fuel_map # EmptyText
  /\ g_laps_stored # <<>>

\* C9: once a tick has ended, the indicator shows "Connected" exactly when the
\* stored connection status is true.
C9_IndicatorMatchesStored ==
  (pc = "idle" /\ g_connection_status_stored # "None")
    => (div_connection_info = "Connected" <=> g_connection_status_stored = "True")

\* C10: when update_fuel_map returns, the fuel map is empty if the lap list is
\* empty and is the table of the newest lap otherwise.
C10_FuelMapOfNewestLap ==
  [][(fpc # "idle" /\ fpc' = "idle")
       => IF laps' = <<>> THEN div_fuel_map' = EmptyText
          ELSE div_fuel_map' = FuelTable(heap', laps'[1])]_vars

\* C11: when a run has stored its snapshot the lap options of the dropdown are
\* those of g_laps_stored, index for index; and load_reference_lap_handler called
\* with an option's index i >= 0 raises nothing and selects the lap that option
\* shows, and called with -1 it clears the selection.
C11_OptionSelectsDisplayedLap ==
  [][/\ (pc = "store" /\ pc' = "idle")
          => LapOptions' = BokehTupleForListOfLaps(heap', g_laps_stored')
     /\ (select_value' # select_value)
          => IF select_value' = -1
             THEN g_reference_lap_selected' = None
             ELSE /\ pc' # "raised"
                  /\ g_reference_lap_selected' # None
                  /\ select_options[select_value' + 2]
                       = <<select_value', heap'[g_reference_lap_selected'].time>>]_vars

\* the steps of update_lap_change that come before the pipeline
PrePipelinePcs == {"entry", "conn_cmp", "conn_upd", "conn_store", "check"}

\* C12: a tick that finds the lap list equal to g_laps_stored and no reference
\* selection pending returns without running the pipeline, and up to there
\* update_lap_change changes nothing but the tuning info, the connection
\* indicator and their two snapshots: the time table, the dropdown, the graph
\* sources, the peak/valley panels, g_laps_stored and g_reference_lap_selected
\* stay as they are; update_fuel_map never changes g_laps_stored or
\* g_telemetry_update_needed.
C12_IdleTickFrame ==
  [][/\ (pc = "check" /\ pc' # "check"
           /\ ListEq(heap, laps, g_laps_stored) /\ ~g_telemetry_update_needed)
          => pc' = "idle"
     /\ (pc \in PrePipelinePcs)
          => UNCHANGED <<lap_views, div_fuel_map, select_value, g_laps_stored,
                         g_reference_lap_selected, g_stored_fuel_map,
                         g_telemetry_update_needed>>
     /\ (fpc # "idle" \/ fpc' # "idle")
          => UNCHANGED <<g_laps_stored, g_telemetry_update_needed>>]_vars

\* C12 witness: a timer tick that has written the connection indicator is about
\* to return with nothing to do, the views showing the stored laps and the fuel
\* map drawn.
C12_IdleTickReturns ==
  /\ pc = "check"
  /\ caller = "timer"
  /\ g_laps_stored # <<>>
  /\ ListEq(heap, laps, g_laps_stored)
  /\ ~g_telemetry_update_needed
  /\ t_lap_times = TimeTable(heap, g_laps_stored)
  /\ div_connection_info # ""
  /\ g_stored_fuel_map # None

\* C13: with brake points enabled, when update_speed_velocity_graph has drawn the
\* brake points of a run, the markers on the race line are exactly the brake
\* points of that run's last lap and of its reference lap: none of an earlier run
\* is left.
C13_MarkersOfThisRun ==
  [][(brake_points_enabled /\ pc = "graph" /\ pc' = "store")
       => race_line_markers' =
            BrakePoints(heap, LastLap(laps), "blue")
              \cup BrakePoints(heap, ReferenceLap(heap, laps, g_reference_lap_selected),
                               "magenta")]_vars

\* C14: a session that finds no console address raises before any collaborator is
\* made, started or restarted, and none ever is; otherwise the collaborator is
\* made at most once and started at most once in the process, a session that
\* finds it there makes no other, and restart() is called only by such a session
\* after is_connected() has answered no.
C14_SharedCollaborator ==
  [][/\ (spc = "env" /\ spc' # "env" /\ ~playstation_ip) => spc' = "fatal"
     /\ (~playstation_ip)
          => (gt7comm' = "absent" /\ n_created' = 0 /\ n_started' = 0 /\ n_restarted' = 0)
     /\ n_created' <= 1
     /\ n_started' <= 1
     /\ (spc = "hasattr" /\ spc' # "hasattr" /\ n_created >= 1) => spc' = "reuse"
     /\ (spc' = "restart" /\ spc # "restart") => (spc = "reuse" /\ ~connected)
     /\ (n_restarted' # n_restarted) => (spc = "restart" /\ gt7comm # "absent")
     /\ (spc = "reuse" /\ spc' # "reuse" /\ connected) => spc' = "done"]_vars

\* C14 witness: three sessions have run; the first made and started the
\* collaborator, one of the later two restarted it and the other found it
\* connected and left it alone.
C14_LaterSessionsReuse ==
  /\ sessions = 3
  /\ spc = "done"
  /\ n_created = 1
  /\ n_started = 1
  /\ n_restarted = 1
  /\ gt7comm = "started"

====
